---- MODULE Spec2Model ----
(***************************************************************************)
(* n2kd (src/n2kd/main.c): a single-threaded TCP server that keeps the     *)
(* latest NMEA 2000 record per (PGN, source, secondary key) and fans the   *)
(* records out to its clients.                                             *)
(*                                                                         *)
(* C strings are sequences of one-character strings without the            *)
(* terminating NUL; a position is 1-based and 0 stands for a NULL pointer. *)
(* Every function of main.c is an operator over (parts of) the program     *)
(* state; the actions at the end apply them to the variables.              *)
(***************************************************************************)
EXTENDS Integers, Sequences, FiniteSets, TLC

(***************************************************************************)
(* Program constants                                                       *)
(***************************************************************************)
UPDATE_INTERVAL == 500
SENSOR_TIMEOUT == 120
AIS_TIMEOUT == 3600
SONICHUB_TIMEOUT == 3600 * 24 * 31
MIN_PGN == 59391
MAX_PGN == 131000
ACTISENSE_BEM == 4194304
ACTISENSE_RNG == 256
PGN_LIST_SIZE == 512
READLINE_SIZE == 4096
BUFFER_SIZE == 4096
FD_SETSIZE == 1024

PrnToIdx(prn) ==
  IF prn <= MAX_PGN THEN prn - MIN_PGN
  ELSE IF prn <= ACTISENSE_BEM + ACTISENSE_RNG THEN prn - ACTISENSE_BEM
  ELSE -1

\* The NULL char pointer (no C string is a sequence holding this element).
NullStr == <<"<null>">>

(***************************************************************************)
(* Character data                                                          *)
(***************************************************************************)
Q == "\""
NL == "\n"

S_fields == <<Q, "f", "i", "e", "l", "d", "s", Q, ":">>
S_timestamp == <<"{", Q, "t", "i", "m", "e", "s", "t", "a", "m", "p">>
S_end == <<"}", "}">>
S_src == <<Q, "s", "r", "c", Q, ":">>
S_dst == <<Q, ",", Q, "d", "s", "t", Q, ":", Q>>
S_pgn == <<Q, ",", Q, "p", "g", "n", Q, ":", Q>>
S_description == <<Q, "d", "e", "s", "c", "r", "i", "p", "t", "i", "o", "n", Q, ":">>
S_marker == <<"-", NL>>

secondaryKeyList ==
  << <<"I", "n", "s", "t", "a", "n", "c", "e", Q>>
   , <<Q, "R", "e", "f", "e", "r", "e", "n", "c", "e", Q>>
   , <<Q, "M", "e", "s", "s", "a", "g", "e", " ", "I", "D", Q>>
   , <<Q, "U", "s", "e", "r", " ", "I", "D", Q>>
   , <<Q, "P", "r", "o", "p", "r", "i", "e", "t", "a", "r", "y", " ", "I", "D", Q>>
   >>

secondaryKeyTimeout ==
  << SENSOR_TIMEOUT, SENSOR_TIMEOUT, AIS_TIMEOUT, AIS_TIMEOUT, SENSOR_TIMEOUT, SENSOR_TIMEOUT >>

SKIP_CHARACTERS == {Q, ":", " "}

Digits == <<"0", "1", "2", "3", "4", "5", "6", "7", "8", "9">>

IsDigit(c) == \E d \in 1..10 : Digits[d] = c
DigitVal(c) == (CHOOSE d \in 1..10 : Digits[d] = c) - 1

(***************************************************************************)
(* <string.h> on sequences                                                 *)
(***************************************************************************)
\* pat occurs in s at position i
MatchAt(s, i, pat) ==
  /\ i >= 1
  /\ i + Len(pat) - 1 <= Len(s)
  /\ \A j \in 1..Len(pat) : s[i + j - 1] = pat[j]

\* strstr(s + from - 1, pat): position of the first occurrence at or after from, 0 if none
StrStrFrom(s, from, pat) ==
  LET hits == {i \in from..(Len(s) - Len(pat) + 1) : MatchAt(s, i, pat)}
  IN IF hits = {} THEN 0 ELSE CHOOSE i \in hits : \A j \in hits : i <= j

StrStr(s, pat) == StrStrFrom(s, 1, pat)

\* strchr(s + from - 1, c) for c # NUL
StrChrFrom(s, from, c) ==
  LET hits == {i \in from..Len(s) : s[i] = c}
  IN IF hits = {} THEN 0 ELSE CHOOSE i \in hits : \A j \in hits : i <= j

\* the characters of s at positions from .. to-1 (memcpy(dst, s + from, to - from))
Span(s, from, to) == IF to <= from THEN <<>> ELSE SubSeq(s, from, to - 1)

(***************************************************************************)
(* sscanf(s, "%u\",\"dst\":\"%u\",\"pgn\":\"%u\"", &src, &dst, &prn)        *)
(***************************************************************************)
\* first position at or after pos that holds no blank (the %u directive skips white space)
RECURSIVE SkipBlank(_, _)
SkipBlank(s, pos) ==
  IF pos <= Len(s) /\ s[pos] = " " THEN SkipBlank(s, pos + 1) ELSE pos

\* end of the run of digits starting at pos (first position after it)
RECURSIVE DigitsEnd(_, _)
DigitsEnd(s, pos) ==
  IF pos <= Len(s) /\ IsDigit(s[pos]) THEN DigitsEnd(s, pos + 1) ELSE pos

RECURSIVE DigitsValue(_, _, _, _)
DigitsValue(s, pos, end, acc) ==
  IF pos >= end THEN acc ELSE DigitsValue(s, pos + 1, end, acc * 10 + DigitVal(s[pos]))

\* one %u directive at pos: [ok, val, next]  (the inputs of the model keep the
\* value below 2^31, where the int the value is stored in holds it unchanged)
ScanUnsigned(s, pos) ==
  LET b == SkipBlank(s, pos)
      e == DigitsEnd(s, b)
  IN [ok |-> e > b, val |-> DigitsValue(s, b, e, 0), next |-> e]

(***************************************************************************)
(* The Record Parser and the Message Store: handleMessageByte              *)
(*                                                                         *)
(* P is the part of the program state the parser touches:                  *)
(*   readLine       the static line buffer up to readBegin                 *)
(*   pgnIdx         the dense index, a function from the indexes in use    *)
(*                  (an index outside its DOMAIN holds a NULL pointer)     *)
(*   pgnList        the indexes in first-observation order                 *)
(*   currentMessage the accumulator, currentLen characters                 *)
(*   proc           "running", "hung" (a loop that never ends) or          *)
(*                  "aborted" (logAbort, or a fault)                       *)
(* A Pgn is [p_prn, p_description, p_message], p_maxSrc = Len(p_message);  *)
(* slot i of the C array is p_message[i + 1].                              *)
(***************************************************************************)
NewPgn == [p_prn |-> 0, p_description |-> NullStr, p_message |-> <<>>]

\* while (strchr(SKIP_CHARACTERS, *s)) s++;  (a line that reaches here ends in
\* "}}", so the scan stops before the terminator)
RECURSIVE SkipCharacters(_, _)
SkipCharacters(line, s) ==
  IF s <= Len(line) /\ line[s] \in SKIP_CHARACTERS THEN SkipCharacters(line, s + 1) ELSE s

\* the value copied into key2 for the key name found at position at
ExtractKey(line, at, name) ==
  LET s == SkipCharacters(line, at + Len(name))
      e1 == StrChrFrom(line, s, " ")
      e2 == StrChrFrom(line, s, Q)
      e == IF e1 = 0 \/ e2 < e1 THEN e2 ELSE e1
      end == IF e = 0 THEN Len(line) + 1 ELSE e
  IN Span(line, s, end)

\* for (k = 0; k < ARRAYSIZE(secondaryKeyList); k++): every name is tried, a later
\* match replaces key2, and k leaves the loop as ARRAYSIZE(secondaryKeyList)
RECURSIVE SecondaryKeyLoop(_, _, _)
SecondaryKeyLoop(line, k, key2) ==
  IF k < Len(secondaryKeyList)
  THEN LET at == StrStr(line, secondaryKeyList[k + 1])
       IN SecondaryKeyLoop(line, k + 1,
            IF at # 0 THEN ExtractKey(line, at, secondaryKeyList[k + 1]) ELSE key2)
  ELSE [k |-> k, key2 |-> key2]

\* (tickLines records the messages appended since the accumulator was last cleared)
appendJSONMessage(P, message) ==
  [P EXCEPT !.currentMessage = @ \o message, !.tickLines = Append(@, message)]

\* if (!pgn->p_description) { ... }: [pgn, ret], ret when the function returns here
SetDescription(pgn, line, prn) ==
  IF pgn.p_description # NullStr THEN [pgn |-> pgn, ret |-> FALSE]
  ELSE LET pgn1 == [pgn EXCEPT !.p_prn = prn]
           at == StrStr(line, S_description)
           s == at + Len(S_description) + 1
           e1 == StrChrFrom(line, s, ":")
           e2 == StrChrFrom(line, s, Q)
           e == IF e1 = 0 \/ e2 < e1 THEN e2 ELSE e1
       IN IF at = 0 THEN [pgn |-> pgn1, ret |-> FALSE]
          ELSE IF e = 0 THEN [pgn |-> pgn1, ret |-> TRUE]
          ELSE [pgn |-> [pgn1 EXCEPT !.p_description = Span(line, s, e)], ret |-> FALSE]

\* the test of the "Find existing key" loop for one slot
KeyMatches(m, src, key2) ==
  /\ m.m_src = src
  /\ IF m.m_key2 # NullStr THEN key2 # NullStr /\ m.m_key2 = key2 ELSE TRUE

\* the value of i when a for loop over the slots 1..n ends: the first slot of
\* hits, the slots at which it breaks, and n + 1 if there is none
FirstSlot(hits, n) ==
  IF hits = {} THEN n + 1 ELSE CHOOSE i \in hits : \A j \in hits : i <= j

\* (uint8_t) src
Uint8(src) == src % 256

\* valid: the seconds the record stays current
ValidFor(prn, k) ==
  IF prn = 126996 THEN AIS_TIMEOUT
  ELSE IF prn = 130816 THEN SONICHUB_TIMEOUT
  ELSE secondaryKeyTimeout[k + 1]

\* "Find existing key", "Reuse expired key ?", "Create new key", then the copy of
\* the text and the expiry
InsertMessage(pgn, line, prn, src, key2, k, now) ==
  LET msgs == pgn.p_message
      existing == {i \in 1..Len(msgs) : KeyMatches(msgs[i], src, key2)}
      expired == {i \in 1..Len(msgs) : msgs[i].m_time < now}
      i1 == FirstSlot(existing, Len(msgs))
      i2 == IF i1 = Len(msgs) + 1 THEN FirstSlot(expired, Len(msgs)) ELSE i1
      reused == i1 = Len(msgs) + 1 /\ i2 <= Len(msgs)
      created == i1 = Len(msgs) + 1 /\ i2 = Len(msgs) + 1
      msgs1 == IF reused
               THEN [msgs EXCEPT ![i2].m_src = Uint8(src), ![i2].m_key2 = key2]
               ELSE IF created
               THEN Append(msgs, [m_src |-> Uint8(src), m_key2 |-> key2,
                                  m_time |-> 0, m_text |-> NullStr])
               ELSE msgs
  IN [pgn EXCEPT !.p_message =
        [msgs1 EXCEPT ![i2].m_text = line, ![i2].m_time = now + ValidFor(prn, k)]]

\* handleMessageByte from "pgn = pgnIdx[idx]" on
StoreLine(P, line, prn, src, key2, k, idx, now) ==
  LET absent == idx \notin DOMAIN P.pgnIdx
      pgn0 == IF absent THEN NewPgn ELSE P.pgnIdx[idx]
      d == SetDescription(pgn0, line, prn)
      pgn1 == IF d.ret THEN d.pgn ELSE InsertMessage(d.pgn, line, prn, src, key2, k, now)
  IN IF absent /\ Len(P.pgnList) = PGN_LIST_SIZE
     THEN [P EXCEPT !.proc = "aborted"]
     ELSE [P EXCEPT !.pgnIdx = (idx :> pgn1) @@ @,
                    !.pgnList = IF absent THEN Append(@, idx) ELSE @]

\* What the string searches of handleMessageByte find in one line; they depend
\* on the line alone: the three framing tests, the sscanf conversions that were
\* reached (src and prn stay indeterminate otherwise), the secondary key loop.
LineFacts(line) ==
  LET s == StrStr(line, S_src)
      a == ScanUnsigned(line, s + Len(S_src) + 1)
      b == ScanUnsigned(line, a.next + Len(S_dst))
      c == ScanUnsigned(line, b.next + Len(S_pgn))
      okA == s # 0 /\ a.ok
      okB == okA /\ MatchAt(line, a.next, S_dst) /\ b.ok
      okC == okB /\ MatchAt(line, b.next, S_pgn) /\ c.ok
  IN [framed |-> /\ StrStr(line, S_fields) # 0
                 /\ MatchAt(line, 1, S_timestamp)
                 /\ MatchAt(line, Len(line) - 1, S_end),
      hasSrc |-> okA, src |-> IF okA THEN a.val ELSE 0,
      hasPrn |-> okC, prn |-> IF okC THEN c.val ELSE 0,
      key |-> SecondaryKeyLoop(line, 0, NullStr)]

\* handleMessageByte once the line is terminated: line is readLine as a C string
ParseLine(P, line, now, ind) ==
  LET f == LineFacts(line)
      src == IF f.hasSrc THEN f.src ELSE ind.src
      prn == IF f.hasPrn THEN f.prn ELSE ind.prn
      P1 == appendJSONMessage(P, line)
      idx == PrnToIdx(prn)
  IN IF ~f.framed THEN P
     ELSE IF prn = 0 \/ src = 0 THEN P
     ELSE IF prn > MAX_PGN THEN P
     ELSE IF idx < 0 THEN [P1 EXCEPT !.proc = "aborted"]
     ELSE StoreLine(P1, line, prn, src, f.key.key2, f.key.k, idx, now)

\* void handleMessageByte(char c), with now = time(0).  With readLine full,
\* "*readBegin = 0" writes readLine[sizeof(readLine)], one byte past the array:
\* ind.over is what the build makes of that write, "kept" (the byte lands
\* where nothing the program reads is changed) or a "fault".
handleMessageByte(P, c, now, ind) ==
  IF c # NL /\ Len(P.readLine) < READLINE_SIZE
  THEN [P EXCEPT !.readLine = Append(@, c)]
  ELSE IF Len(P.readLine) = READLINE_SIZE /\ ind.over = "fault"
  THEN [P EXCEPT !.proc = "aborted"]
  ELSE ParseLine([P EXCEPT !.readLine = <<>>], P.readLine, now, ind)

\* the bytes at the head of bytes that handleMessageByte only stores: those
\* before the first newline, as far as readLine has room
Stored(P, bytes) ==
  LET nl == StrChrFrom(bytes, 1, NL)
      plain == IF nl = 0 THEN Len(bytes) ELSE nl - 1
      room == READLINE_SIZE - Len(P.readLine)
  IN IF plain < room THEN plain ELSE room

\* for (j = 0; j < n; j++) handleMessageByte(bytes[j]); a process that has
\* stopped executes nothing further.  The calls that only store a byte are
\* taken together.
RECURSIVE FeedBytes(_, _, _, _)
FeedBytes(P, bytes, now, ind) ==
  IF bytes = <<>> \/ P.proc # "running" THEN P
  ELSE IF Stored(P, bytes) > 0
  THEN FeedBytes([P EXCEPT !.readLine = @ \o SubSeq(bytes, 1, Stored(P, bytes))],
                 SubSeq(bytes, Stored(P, bytes) + 1, Len(bytes)), now, ind)
  ELSE FeedBytes(handleMessageByte(P, Head(bytes), now, ind), Tail(bytes), now, ind)

(***************************************************************************)
(* Snapshot Serializer: getFullStateJSON                                   *)
(*                                                                         *)
(* The JSON object is kept by its members: one element per PGN of pgnList  *)
(* with its p_prn and p_description, and in it one member per slot that    *)
(* passes the test m_time >= now, in slot order.                           *)
(***************************************************************************)
StateMember(m) == [src |-> m.m_src, key2 |-> m.m_key2, text |-> m.m_text]

CurrentStrictly(m, now) == m.m_time > now
Current(m, now) == m.m_time >= now

RECURSIVE StateMembers(_, _)
StateMembers(msgs, now) ==
  IF msgs = <<>> THEN <<>>
  ELSE (IF Current(Head(msgs), now) THEN <<StateMember(Head(msgs))>> ELSE <<>>)
       \o StateMembers(Tail(msgs), now)

getFullStateJSON(idx, list, now) ==
  [i \in 1..Len(list) |->
     [prn |-> idx[list[i]].p_prn,
      description |-> idx[list[i]].p_description,
      members |-> StateMembers(idx[list[i]].p_message, now)]]

\* strlen(pgn->p_description) on a description that was never set reads through
\* a NULL pointer
StateFaults(idx, list) == \E i \in 1..Len(list) : idx[list[i]].p_description = NullStr

(***************************************************************************)
(* The operating system as the program sees it                             *)
(*                                                                         *)
(*   conn[c]  a TCP connection a client makes: st is "idle", "pending" (in *)
(*            a listener's backlog), "open" (accepted, on descriptor fd)   *)
(*            or "closed" (by the server); inbuf is what the client wrote  *)
(*            and the server has not read; rx the accumulator bytes and    *)
(*            states the snapshots sent to it; reg the time it was         *)
(*            registered; promoted once its slot became a JSON-stream      *)
(*            client                                                       *)
(*   backlog  per listening port, the connections waiting for accept       *)
(*   listen   per listening port, the listening descriptor                 *)
(*   stdin    the bytes waiting on descriptor 0                            *)
(*   stdout   the bytes written to descriptor 1                            *)
(*   clock    wall clock in milliseconds                                   *)
(***************************************************************************)
stdinfd == 0
stdoutfd == 1
StdFds == {0, 1, 2}
NoFd == -1

NUL == "NUL"

Min(set) == CHOOSE x \in set : \A y \in set : x <= y
Max(set) == CHOOSE x \in set : \A y \in set : x >= y
CB_MAX(a, b) == IF a > b THEN a ELSE b

epoch(S) == S.clock
time(S) == S.clock \div 1000

OpenFds(S) ==
  StdFds \cup {S.listen[p] : p \in DOMAIN S.listen}
         \cup {S.conn[c].fd : c \in {d \in DOMAIN S.conn : S.conn[d].st = "open"}}

\* socket() and accept() return the lowest descriptor not in use
LowestFreeFd(S) == Min({fd \in 0..(Cardinality(OpenFds(S)) + 1) : fd \notin OpenFds(S)})

ConnAt(S, fd) == {c \in DOMAIN S.conn : S.conn[c].st = "open" /\ S.conn[c].fd = fd}

\* close(fd)
OsClose(S, fd) ==
  [S EXCEPT !.conn = [c \in DOMAIN @ |->
      IF c \in ConnAt(S, fd) THEN [@[c] EXCEPT !.st = "closed"] ELSE @[c]]]

\* select() for reading: is fd ready
Readable(S, fd) ==
  \/ fd = stdinfd /\ S.stdin # <<>>
  \/ \E p \in DOMAIN S.listen : S.listen[p] = fd /\ S.backlog[p] # <<>>
  \/ \E c \in ConnAt(S, fd) : S.conn[c].inbuf # <<>>

\* read(fd, buf, count): [r, data] and the state after it
OsRead(S, fd, count) ==
  LET cs == ConnAt(S, fd)
      c == CHOOSE d \in cs : TRUE
      avail == IF fd = stdinfd THEN S.stdin ELSE S.conn[c].inbuf
      n == IF Len(avail) < count THEN Len(avail) ELSE count
  IN IF (fd # stdinfd /\ cs = {}) \/ count < 0 THEN [r |-> -1, data |-> <<>>, S |-> S]
     ELSE IF n <= 0 THEN [r |-> 0, data |-> <<>>, S |-> S]
     ELSE [r |-> n, data |-> SubSeq(avail, 1, n),
           S |-> IF fd = stdinfd
                 THEN [S EXCEPT !.stdin = SubSeq(@, n + 1, Len(@))]
                 ELSE [S EXCEPT !.conn[c].inbuf = SubSeq(@, n + 1, Len(@))]]

\* what a send or write of n bytes returns: all of them, fewer, or an error
SendOutcomes == {"full", "short", "error"}

Accepted(bytes, outcome) ==
  IF outcome = "full" THEN bytes
  ELSE IF outcome = "short" THEN SubSeq(bytes, 1, Len(bytes) \div 2)
  ELSE <<>>

\* send(fd, currentMessage, currentLen, 0) from slot i
OsSendBytes(S, i, fd, bytes, outcome) ==
  LET S1 == [S EXCEPT !.sendLog = Append(@, [slot |-> i, fd |-> fd, what |-> "bytes", outcome |-> outcome])]
  IN IF fd = stdoutfd THEN [S1 EXCEPT !.stdout = @ \o Accepted(bytes, outcome)]
     ELSE [S1 EXCEPT !.conn = [c \in DOMAIN @ |->
             IF c \in ConnAt(S, fd) THEN [@[c] EXCEPT !.rx = @ \o Accepted(bytes, outcome)] ELSE @[c]]]

\* send(fd, state, strlen(state), 0) from slot i
OsSendState(S, i, fd, json, outcome) ==
  LET S1 == [S EXCEPT !.sendLog = Append(@, [slot |-> i, fd |-> fd, what |-> "state", outcome |-> outcome])]
  IN [S1 EXCEPT !.conn = [c \in DOMAIN @ |->
        IF c \in ConnAt(S, fd)
        THEN [@[c] EXCEPT !.states = Append(@, [at |-> epoch(S), json |-> json, outcome |-> outcome])]
        ELSE @[c]]]

(***************************************************************************)
(* Stream Registry: stream[], setFdUsed, closeStream                       *)
(*                                                                         *)
(* stream is a function on 0..n for the slots written so far; the slots    *)
(* after n are still all zero (ZeroStream).  buffer holds the array up to  *)
(* its last written element; the elements after it are NUL.                *)
(***************************************************************************)
StreamTypes ==
  {"SOCKET_TYPE_ANY", "CLIENT_JSON", "CLIENT_JSON_STREAM", "CLIENT_NMEA0183_STREAM",
   "SERVER_JSON", "SERVER_NMEA0183", "DATA_INPUT_STREAM", "DATA_OUTPUT_SINK",
   "DATA_OUTPUT_COPY", "DATA_OUTPUT_STREAM"}

readHandlers(ct) ==
  CASE ct = "CLIENT_JSON" -> "handleClientRequest"
    [] ct = "CLIENT_JSON_STREAM" -> "handleClientRequest"
    [] ct = "SERVER_JSON" -> "acceptJSONClient"
    [] ct = "SERVER_NMEA0183" -> "acceptNMEA0183Client"
    [] ct = "DATA_INPUT_STREAM" -> "handleClientRequest"
    [] OTHER -> "0"

ZeroStream ==
  [fd |-> 0, type |-> "SOCKET_TYPE_ANY", timeout |-> 0, readHandler |-> "0",
   buffer |-> <<>>, len |-> 0]

SlotAt(st, i) == IF i \in DOMAIN st THEN st[i] ELSE ZeroStream

SetSlot(st, i, v) == [j \in (DOMAIN st) \cup {i} |-> IF j = i THEN v ELSE st[j]]

\* the slot setFdUsed picks: the first one in 0..socketIdxMax that is free or
\* already holds fd, and socketIdxMax + 1 when the loop runs to its end
SetFdUsedSlot(S, fd) ==
  LET hits == {i \in 0..S.socketIdxMax :
                 SlotAt(S.stream, i).fd = NoFd \/ SlotAt(S.stream, i).fd = fd}
  IN IF hits = {} THEN S.socketIdxMax + 1 ELSE Min(hits)

WriteInterest(ct) ==
  ct \in {"CLIENT_JSON", "CLIENT_JSON_STREAM", "DATA_OUTPUT_STREAM", "DATA_OUTPUT_COPY"}

setFdUsed(S, fd, ct) ==
  LET i == SetFdUsedSlot(S, fd)
  IN IF i = FD_SETSIZE THEN OsClose(S, fd)
     ELSE [S EXCEPT
            !.stream = SetSlot(@, i, [SlotAt(@, i) EXCEPT
                                        !.fd = fd,
                                        !.timeout = epoch(S) + UPDATE_INTERVAL,
                                        !.type = ct,
                                        !.readHandler = readHandlers(ct)]),
            !.activeSet = @ \cup {fd},
            !.readSet = IF readHandlers(ct) # "0" THEN @ \cup {fd} ELSE @ \ {fd},
            !.writeSet = IF WriteInterest(ct) THEN @ \cup {fd} ELSE @ \ {fd},
            !.socketIdxMax = CB_MAX(@, i),
            !.socketFdMax = CB_MAX(@, fd)]

closeStream(S, i) ==
  LET fd == SlotAt(S.stream, i).fd
      st1 == SetSlot(S.stream, i, [SlotAt(S.stream, i) EXCEPT !.fd = NoFd])
      S1 == OsClose(S, fd)
  IN [S1 EXCEPT
        !.activeSet = @ \ {fd},
        !.readSet = @ \ {fd},
        !.writeSet = @ \ {fd},
        !.stream = st1,
        !.socketIdxMax = IF i = S.socketIdxMax THEN @ - 1 ELSE @,
        !.socketFdMax = IF i = S.socketIdxMax
                        THEN Max({NoFd} \cup {SlotAt(st1, j).fd : j \in 0..i})
                        ELSE @]

(***************************************************************************)
(* Read handlers                                                           *)
(***************************************************************************)
\* the C string that starts at buffer[0]
CStr(buf) ==
  LET z == StrChrFrom(buf, 1, NUL)
  IN IF z = 0 THEN buf ELSE SubSeq(buf, 1, z - 1)

\* the array after data is stored at the 0-based offset off
PutAt(buf, off, data) ==
  LET n == CB_MAX(Len(buf), off + Len(data))
  IN [j \in 1..n |->
        IF j > off /\ j <= off + Len(data) THEN data[j - off]
        ELSE IF j <= Len(buf) THEN buf[j] ELSE NUL]

\* the body of "while (r > 0)" in handleClientRequest, until the loop is left.
\* nl is p - buffer after p++.  With stdout neither a copy nor served, or served
\* as DATA_OUTPUT_STREAM, nothing changes r: the loop never ends.
RECURSIVE ClientRequestLoop(_, _, _, _)
ClientRequestLoop(S, i, r, ind) ==
  IF r <= 0 \/ S.proc # "running" THEN S
  ELSE LET sl == S.stream[i]
           buf1 == PutAt(sl.buffer, r, <<NUL>>)
           S1 == [S EXCEPT !.stream[i].buffer = buf1, !.stream[i].len = @ + r]
           cs == CStr(buf1)
           nl == StrChrFrom(cs, 1, NL)
           out == SlotAt(S.stream, stdoutfd).type
           rest == Span(cs, nl + 1, Len(cs) + 1)
           S2 == FeedBytes(S1, SubSeq(cs, 1, nl), time(S), ind)
           buf2 == IF Len(rest) > 0 THEN PutAt(buf1, 0, SubSeq(rest, 1, Len(rest) - 1)) ELSE buf1
       IN IF nl = 0 THEN S1
          ELSE IF StrStr(cs, S_marker) # 0
          THEN [S1 EXCEPT !.stream[i].type = "CLIENT_JSON_STREAM", !.stream[i].len = 0,
                          !.conn = [c \in DOMAIN @ |->
                             IF c \in ConnAt(S, sl.fd) THEN [@[c] EXCEPT !.promoted = TRUE] ELSE @[c]]]
          ELSE IF out = "DATA_OUTPUT_STREAM"
          THEN [S1 EXCEPT !.stdout = @ \o SubSeq(cs, 1, nl), !.proc = "hung"]
          ELSE IF out = "DATA_OUTPUT_COPY"
          THEN ClientRequestLoop(
                 [S2 EXCEPT !.stream[i].buffer = buf2, !.stream[i].len = @ - nl],
                 i, r - nl, ind)
          ELSE [S1 EXCEPT !.proc = "hung"]

handleClientRequest(S, i, ind) ==
  LET sl == S.stream[i]
      rd == OsRead(S, sl.fd, BUFFER_SIZE - 1 - sl.len)
      S1 == [rd.S EXCEPT !.stream[i].buffer = PutAt(@, sl.len, rd.data)]
  IN IF rd.r <= 0
     THEN IF sl.fd = stdinfd \/ sl.fd = stdoutfd
          THEN [S EXCEPT !.proc = "aborted"]
          ELSE closeStream(S, i)
     ELSE ClientRequestLoop(S1, i, rd.r, ind)

\* for (;;) { r = accept(s, ...); ... setFdUsed(r, ct) ... }
RECURSIVE acceptClient(_, _, _)
acceptClient(S, s, ct) ==
  LET ports == {p \in DOMAIN S.listen : S.listen[p] = s}
      port == CHOOSE p \in ports : TRUE
      c == Head(S.backlog[port])
      r == LowestFreeFd(S)
      S1 == [S EXCEPT !.backlog[port] = Tail(@),
                      !.conn[c].st = "open", !.conn[c].fd = r, !.conn[c].reg = epoch(S)]
  IN IF ports = {} THEN S
     ELSE IF S.backlog[port] = <<>> THEN S
     ELSE IF SetFdUsedSlot(S1, r) = FD_SETSIZE THEN setFdUsed(S1, r, ct)
     ELSE acceptClient(setFdUsed(S1, r, ct), s, ct)

acceptJSONClient(S, i) == acceptClient(S, SlotAt(S.stream, i).fd, "CLIENT_JSON")

acceptNMEA0183Client(S, i) == acceptClient(S, SlotAt(S.stream, i).fd, "CLIENT_NMEA0183_STREAM")

\* (stream[i].readHandler)(i); a call through a null pointer faults
CallReadHandler(S, i, ind) ==
  LET h == SlotAt(S.stream, i).readHandler
  IN CASE h = "handleClientRequest" -> handleClientRequest(S, i, ind)
       [] h = "acceptJSONClient" -> acceptJSONClient(S, i)
       [] h = "acceptNMEA0183Client" -> acceptNMEA0183Client(S, i)
       [] OTHER -> [S EXCEPT !.proc = "aborted"]

(***************************************************************************)
(* checkReadEvents                                                         *)
(*                                                                         *)
(* rs is what select() leaves of readSet and r its return value.  For a    *)
(* free slot fd is -1, which passes the test "fd &&", and FD_ISSET(-1, &rs)*)
(* is undefined: ub is what the build makes of it for this call, the bit   *)
(* read as "clear" or as "set", or an "abort" by the checked macro.        *)
(***************************************************************************)
UbOutcomes == {"clear", "set", "abort"}

RECURSIVE ReadLoop(_, _, _, _, _, _)
ReadLoop(S, rs, r, i, ub, ind) ==
  IF ~(r > 0 /\ i <= S.socketIdxMax) \/ S.proc # "running" THEN S
  ELSE LET fd == SlotAt(S.stream, i).fd
       IN IF fd = 0 THEN ReadLoop(S, rs, r, i + 1, ub, ind)
          ELSE IF fd < 0 /\ ub = "abort" THEN [S EXCEPT !.proc = "aborted"]
          ELSE IF (fd < 0 /\ ub = "set") \/ (fd >= 0 /\ fd \in rs)
          THEN ReadLoop(CallReadHandler(S, i, ind), rs, r - 1, i + 1, ub, ind)
          ELSE ReadLoop(S, rs, r, i + 1, ub, ind)

ReadySet(S) == {fd \in S.readSet : fd <= S.socketFdMax /\ Readable(S, fd)}

checkReadEvents(S, ub, ind) ==
  ReadLoop(S, ReadySet(S), Cardinality(ReadySet(S)), S.socketIdxMin, ub, ind)

(***************************************************************************)
(* writeAllClients                                                         *)
(*                                                                         *)
(* ws is what select() leaves of writeSet (the descriptors that can be     *)
(* written), res[fd] what a send to fd returns, nullDesc what the build    *)
(* makes of strlen(NULL) in getFullStateJSON: a "fault", or "read" as an   *)
(* empty string.                                                           *)
(***************************************************************************)
NullOutcomes == {"fault", "read"}

\* the arm of "switch (stream[i].type)" for the ready slot i
\* after send(fd, state, ...): if (stream[i].type == CLIENT_JSON_STREAM)
\* stream[i].timeout = epoch() + UPDATE_INTERVAL; else closeStream(i);
SnapshotKept(S, i) == [S EXCEPT !.stream[i].timeout = epoch(S) + UPDATE_INTERVAL]
SnapshotSent(S, i) ==
  IF SlotAt(S.stream, i).type = "CLIENT_JSON_STREAM"
  THEN [S EXCEPT !.stream[i].timeout = epoch(S) + UPDATE_INTERVAL]
  ELSE closeStream(S, i)

\* the switch on stream[i].type for a slot select() reported writable
WriteReady(S, i, res, nullDesc) ==
  LET sl == SlotAt(S.stream, i)
      state == getFullStateJSON(S.pgnIdx, S.pgnList, time(S))
  IN CASE sl.type = "CLIENT_JSON" ->
            IF sl.timeout # 0 /\ sl.timeout < epoch(S)
            THEN IF StateFaults(S.pgnIdx, S.pgnList) /\ nullDesc = "fault"
                 THEN [S EXCEPT !.proc = "aborted"]
                 ELSE SnapshotSent(
                        OsSendState([S EXCEPT !.state = [at |-> time(S), json |-> state]],
                                    i, sl.fd, state, res[sl.fd]), i)
            ELSE S
       [] sl.type \in {"CLIENT_JSON_STREAM", "DATA_OUTPUT_STREAM", "DATA_OUTPUT_COPY"} ->
            IF Len(S.currentMessage) # 0
            THEN OsSendBytes(S, i, sl.fd, S.currentMessage, res[sl.fd])
            ELSE S
       [] OTHER -> S

RECURSIVE WriteLoop(_, _, _, _, _, _)
WriteLoop(S, ws, r, i, res, nullDesc) ==
  IF ~(r > 0 /\ i <= S.socketIdxMax) \/ S.proc # "running" THEN S
  ELSE LET fd == SlotAt(S.stream, i).fd
       IN IF fd < 0 THEN WriteLoop(S, ws, r, i + 1, res, nullDesc)
          ELSE IF fd > S.socketFdMax THEN [S EXCEPT !.proc = "aborted"]
          ELSE IF fd \notin S.writeSet THEN WriteLoop(S, ws, r, i + 1, res, nullDesc)
          ELSE IF fd \notin ws THEN WriteLoop(closeStream(S, i), ws, r, i + 1, res, nullDesc)
          ELSE WriteLoop(WriteReady(S, i, res, nullDesc), ws, r - 1, i + 1, res, nullDesc)

\* the descriptors select() looks at
WriteCandidates(S) == {fd \in S.writeSet : fd <= S.socketFdMax}

writeAllClients(S, ws, res, nullDesc) ==
  LET S0 == [S EXCEPT !.sendLog = <<>>, !.lastWs = ws]
      S1 == IF S.socketIdxMax >= 0
            THEN WriteLoop(S0, ws, Cardinality(ws), S.socketIdxMin, res, nullDesc)
            ELSE S0
  IN IF S1.proc = "running" THEN [S1 EXCEPT !.currentMessage = <<>>, !.tickLines = <<>>] ELSE S1

(***************************************************************************)
(* main: the state doServerWork starts from                                *)
(***************************************************************************)
\* tcpServer(port, st): socket(), bind, listen, setFdUsed(s, st)
tcpServer(S, port, st) ==
  LET s == LowestFreeFd(S)
  IN setFdUsed([S EXCEPT !.listen = (port :> s) @@ @], s, st)

startTcpServers(S) == tcpServer(tcpServer(S, "json", "SERVER_JSON"), "nmea", "SERVER_NMEA0183")

\* the command line: no flag, -o or -r
Flags == {"", "-o", "-r"}

main(S, flag) ==
  LET S1 == setFdUsed(S, stdinfd, "DATA_INPUT_STREAM")
      S2 == setFdUsed(S1, stdoutfd, "DATA_OUTPUT_STREAM")
      S3 == IF flag = "-o" THEN setFdUsed(S2, stdoutfd, "DATA_OUTPUT_COPY")
            ELSE IF flag = "-r" THEN setFdUsed(S2, stdoutfd, "DATA_OUTPUT_SINK")
            ELSE S2
  IN startTcpServers([S3 EXCEPT !.socketIdxMin = 0, !.socketIdxMax = 0])

(***************************************************************************)
(* Bounds of the model and the inputs it draws                             *)
(***************************************************************************)
MaxConn == 2      \* connections made over a run
MaxSend == 1      \* writes by one client
MaxFeed == 2      \* lines fed to the parser
MaxInput == 1     \* lines arriving on standard input
MaxElapse == 2    \* clock jumps of whole seconds
MaxClock == 750   \* milliseconds the engine is followed for
StartClock == 1000000

Conns == 1..MaxConn

\* decimal digits of n
RECURSIVE Dec(_)
Dec(n) == IF n < 10 THEN <<Digits[n + 1]>> ELSE Dec(n \div 10) \o <<Digits[(n % 10) + 1]>>

T_head == <<"{", Q, "t", "i", "m", "e", "s", "t", "a", "m", "p", Q, ":", Q, "t", Q, ",", Q, "s", "r", "c", Q, ":", Q>>
T_dst == <<Q, ",", Q, "d", "s", "t", Q, ":", Q, "2", "5", "5", Q, ",", Q, "p", "g", "n", Q, ":", Q>>
T_desc == <<Q, ",", Q, "d", "e", "s", "c", "r", "i", "p", "t", "i", "o", "n", Q, ":", Q>>
T_fields == <<Q, ",", Q, "f", "i", "e", "l", "d", "s", Q, ":", "{">>
T_tail == <<"}", "}">>
F_depth == <<Q, "D", "e", "p", "t", "h", Q, ":", Q, "3", Q>>
F_instance0 == <<Q, "I", "n", "s", "t", "a", "n", "c", "e", Q, ":", Q, "0", Q>>
F_instance1 == <<Q, "I", "n", "s", "t", "a", "n", "c", "e", Q, ":", Q, "1", Q>>
F_userid == <<Q, "U", "s", "e", "r", " ", "I", "D", Q, ":", Q, "7", Q>>

\* {"timestamp":"t","src":"<src>","dst":"255","pgn":"<pgn>","description":"<desc>","fields":{<fields>}}
Record(src, pgn, desc, fields) ==
  T_head \o Dec(src) \o T_dst \o Dec(pgn)
         \o (IF desc = NullStr THEN <<>> ELSE T_desc \o desc)
         \o T_fields \o fields \o T_tail

L_plain == Record(1, 127508, <<"B">>, F_depth)
L_inst0 == Record(1, 127508, <<"B">>, F_instance0)
L_inst1 == Record(1, 127508, <<"B">>, F_instance1)
L_wide == Record(256, 127508, <<"B">>, F_depth)
L_user == Record(2, 129038, <<"A">>, F_userid)
L_info == Record(3, 126996, <<"P">>, F_depth)
L_sonic == Record(3, 130816, <<"S">>, F_instance0)
L_nodesc == Record(4, 128267, NullStr, F_depth)
L_junk == <<"j", "u", "n", "k">>

\* records at the edges of the PGN ranges
L_bem == Record(1, ACTISENSE_BEM, <<"E">>, F_depth)
L_bemLast == Record(1, ACTISENSE_BEM + ACTISENSE_RNG - 1, <<"E">>, F_depth)
L_min == Record(1, MIN_PGN, <<"M">>, F_depth)
L_max == Record(1, MAX_PGN, <<"N">>, F_depth)
L_over == Record(1, MAX_PGN + 1, <<"O">>, F_depth)
L_low == Record(1, MIN_PGN - 1, <<"L">>, F_depth)

\* a framed line whose description value runs to the end of the line:
\* {"timestamp":"t","src":"1","dst":"255","pgn":"127508","fields":{"Depth":"3"},"description":B}}
T_open == <<"}", ",", Q, "d", "e", "s", "c", "r", "i", "p", "t", "i", "o", "n", Q, ":", "B">>
L_openDesc == Record(1, 127508, NullStr, F_depth \o T_open)

\* a line of more than sizeof(readLine) bytes: READLINE_SIZE + 1 bytes that
\* are no record, followed by the bytes of L_plain
Filler(n) == [i \in 1..n |-> "a"]
L_long == Filler(READLINE_SIZE + 1) \o L_plain

\* a valid record of exactly sizeof(readLine) bytes: L_plain with a longer
\* description
L_full == Record(1, 127508, Filler(READLINE_SIZE - Len(L_plain) + 1), F_depth)

ParseLines ==
  {L_plain, L_bem, L_bemLast, L_min, L_max, L_over, L_low, L_openDesc, L_long, L_full}

StoreLines ==
  {L_plain, L_inst0, L_inst1, L_wide, L_user, L_info, L_sonic, L_nodesc, L_junk}

FanLines == {L_plain, L_user}

InputLines == {L_plain}

ClientChunks == {<<"-", NL>>, <<"x", NL>>}

\* complete lines a client may write: the marker, a line that ends in '-',
\* a valid record
ClientLines == {S_marker, <<"x", "-", NL>>, L_plain \o <<NL>>}

\* what a write one byte past readLine may do
OverrunOutcomes == {"kept", "fault"}

\* the values an uninitialised int may hold, and the outcome of an overrun
Indeterminate ==
  {[src |-> v[1], prn |-> v[2], over |-> o] :
     v \in {<<0, 0>>, <<1, 127508>>}, o \in OverrunOutcomes}

ElapseSteps == {1, SENSOR_TIMEOUT}
TickSteps == {UPDATE_INTERVAL \div 2}

(***************************************************************************)
(* State                                                                   *)
(***************************************************************************)
VARIABLES
  stream, socketIdxMin, socketIdxMax, socketFdMax, activeSet, readSet, writeSet,
  readLine, pgnIdx, pgnList, currentMessage,
  proc,        \* "running", "hung", "aborted"
  pc,          \* where doServerWork stands: "read" or "write"
  clock, conn, backlog, listen, stdin, stdout,
  state,       \* the last snapshot getFullStateJSON returned, with its time(0)
  sendLog,     \* the sends of the last write phase
  lastWs,      \* the descriptors select() reported writable in the last write phase
  tickLines,   \* the lines appended to the accumulator since it was cleared
  lastFeed,    \* the last line fed to the parser and the time(0) of it
  nFeed, nInput, nElapse

vars ==
  <<stream, socketIdxMin, socketIdxMax, socketFdMax, activeSet, readSet, writeSet,
    readLine, pgnIdx, pgnList, currentMessage, proc, pc,
    clock, conn, backlog, listen, stdin, stdout,
    state, sendLog, lastWs, tickLines, lastFeed, nFeed, nInput, nElapse>>

\* the state the operators above work on
St ==
  [stream |-> stream, socketIdxMin |-> socketIdxMin, socketIdxMax |-> socketIdxMax,
   socketFdMax |-> socketFdMax, activeSet |-> activeSet, readSet |-> readSet,
   writeSet |-> writeSet, readLine |-> readLine, pgnIdx |-> pgnIdx, pgnList |-> pgnList,
   currentMessage |-> currentMessage, proc |-> proc, clock |-> clock, conn |-> conn,
   backlog |-> backlog, listen |-> listen, stdin |-> stdin, stdout |-> stdout,
   state |-> state, sendLog |-> sendLog, lastWs |-> lastWs, tickLines |-> tickLines]

Becomes(R) ==
  /\ stream' = R.stream
  /\ socketIdxMin' = R.socketIdxMin
  /\ socketIdxMax' = R.socketIdxMax
  /\ socketFdMax' = R.socketFdMax
  /\ activeSet' = R.activeSet
  /\ readSet' = R.readSet
  /\ writeSet' = R.writeSet
  /\ readLine' = R.readLine
  /\ pgnIdx' = R.pgnIdx
  /\ pgnList' = R.pgnList
  /\ currentMessage' = R.currentMessage
  /\ proc' = R.proc
  /\ clock' = R.clock
  /\ conn' = R.conn
  /\ backlog' = R.backlog
  /\ listen' = R.listen
  /\ stdin' = R.stdin
  /\ stdout' = R.stdout
  /\ state' = R.state
  /\ sendLog' = R.sendLog
  /\ lastWs' = R.lastWs
  /\ tickLines' = R.tickLines

NoState == [at |-> 0, json |-> <<>>]
NoFeed == [line |-> <<>>, now |-> 0]

IdleConn ==
  [st |-> "idle", port |-> "json", fd |-> NoFd, inbuf |-> <<>>,
   rx |-> <<>>, states |-> <<>>, reg |-> 0, nSent |-> 0, promoted |-> FALSE]

\* the zero-initialised globals, before main runs
Zero ==
  [stream |-> <<>>, socketIdxMin |-> 0, socketIdxMax |-> 0, socketFdMax |-> 0,
   activeSet |-> {}, readSet |-> {}, writeSet |-> {},
   readLine |-> <<>>, pgnIdx |-> <<>>, pgnList |-> <<>>, currentMessage |-> <<>>,
   proc |-> "running", clock |-> StartClock,
   conn |-> [c \in Conns |-> IdleConn],
   backlog |-> [p \in {"json", "nmea"} |-> <<>>], listen |-> <<>>,
   stdin |-> <<>>, stdout |-> <<>>,
   state |-> NoState, sendLog |-> <<>>, lastWs |-> {}, tickLines |-> <<>>]

Starts(R) ==
  /\ stream = R.stream
  /\ socketIdxMin = R.socketIdxMin
  /\ socketIdxMax = R.socketIdxMax
  /\ socketFdMax = R.socketFdMax
  /\ activeSet = R.activeSet
  /\ readSet = R.readSet
  /\ writeSet = R.writeSet
  /\ readLine = R.readLine
  /\ pgnIdx = R.pgnIdx
  /\ pgnList = R.pgnList
  /\ currentMessage = R.currentMessage
  /\ proc = R.proc
  /\ clock = R.clock
  /\ conn = R.conn
  /\ backlog = R.backlog
  /\ listen = R.listen
  /\ stdin = R.stdin
  /\ stdout = R.stdout
  /\ state = R.state
  /\ sendLog = R.sendLog
  /\ lastWs = R.lastWs
  /\ tickLines = R.tickLines

Init ==
  \E flag \in Flags :
    /\ \E R \in {main(Zero, flag)} : Starts(R)
    /\ pc = "read"
    /\ lastFeed = NoFeed
    /\ nFeed = 0
    /\ nInput = 0
    /\ nElapse = 0

(***************************************************************************)
(* Actions                                                                 *)
(***************************************************************************)
Env == <<clock, conn, backlog, stdin, nInput, nElapse>>
Prog ==
  <<stream, socketIdxMin, socketIdxMax, socketFdMax, activeSet, readSet, writeSet,
    readLine, pgnIdx, pgnList, currentMessage, proc, pc, listen, stdout,
    state, sendLog, lastWs, tickLines, lastFeed, nFeed>>

\* the wall clock advances by some milliseconds
Tick ==
  \E d \in TickSteps :
    /\ clock + d <= StartClock + MaxClock
    /\ clock' = clock + d
    /\ UNCHANGED <<Prog, conn, backlog, stdin, nInput, nElapse>>

\* the wall clock advances by whole seconds
Elapse ==
  \E d \in ElapseSteps :
    /\ nElapse < MaxElapse
    /\ nElapse' = nElapse + 1
    /\ clock' = clock + d * 1000
    /\ UNCHANGED <<Prog, conn, backlog, stdin, nInput>>

\* a client connects to the JSON port or to the NMEA 0183 port
Connect(c, port) ==
  /\ conn[c].st = "idle"
  /\ \A d \in Conns : d < c => conn[d].st # "idle"
  /\ conn' = [conn EXCEPT ![c].st = "pending", ![c].port = port]
  /\ backlog' = [backlog EXCEPT ![port] = Append(@, c)]
  /\ UNCHANGED <<Prog, clock, stdin, nInput, nElapse>>

\* a client writes to its connection
ClientSend(c, chunk) ==
  /\ conn[c].st \in {"pending", "open"}
  /\ conn[c].nSent < MaxSend
  /\ conn' = [conn EXCEPT ![c].inbuf = @ \o chunk, ![c].nSent = @ + 1]
  /\ UNCHANGED <<Prog, clock, backlog, stdin, nInput, nElapse>>

\* the upstream decoder writes a line to standard input
Input(l) ==
  /\ nInput < MaxInput
  /\ nInput' = nInput + 1
  /\ stdin' = stdin \o l \o <<NL>>
  /\ UNCHANGED <<Prog, clock, conn, backlog, nElapse>>

\* doServerWork: checkReadEvents()
ReadPhase ==
  /\ proc = "running"
  /\ pc = "read"
  /\ \E ub \in UbOutcomes, ind \in Indeterminate :
       \E R \in {checkReadEvents(St, ub, ind)} : Becomes(R)
  /\ pc' = "write"
  /\ UNCHANGED <<lastFeed, nFeed, nInput, nElapse>>

\* doServerWork: writeAllClients()
WritePhase ==
  /\ proc = "running"
  /\ pc = "write"
  /\ \E ws \in SUBSET WriteCandidates(St) :
       \E res \in [ws -> SendOutcomes], nullDesc \in NullOutcomes :
         \E R \in {writeAllClients(St, ws, res, nullDesc)} : Becomes(R)
  /\ pc' = "read"
  /\ UNCHANGED <<lastFeed, nFeed, nInput, nElapse>>

\* a read handler hands one line to the parser, byte by byte:
\* for (j = 0; j < p - stream[i].buffer; j++) handleMessageByte(stream[i].buffer[j])
FeedLine(l) ==
  /\ proc = "running"
  /\ pc = "read"
  /\ nFeed < MaxFeed
  /\ nFeed' = nFeed + 1
  /\ lastFeed' = [line |-> l, now |-> time(St)]
  /\ \E ind \in Indeterminate :
       \E R \in {FeedBytes(St, l \o <<NL>>, time(St), ind)} : Becomes(R)
  /\ UNCHANGED <<pc, nInput, nElapse>>

\* writeAllClients: state = getFullStateJSON()
Snapshot ==
  /\ proc = "running"
  /\ \E nullDesc \in NullOutcomes :
       IF StateFaults(pgnIdx, pgnList) /\ nullDesc = "fault"
       THEN /\ proc' = "aborted"
            /\ UNCHANGED state
       ELSE /\ state' = [at |-> time(St), json |-> getFullStateJSON(pgnIdx, pgnList, time(St))]
            /\ UNCHANGED proc
  /\ UNCHANGED <<Env, stream, socketIdxMin, socketIdxMax, socketFdMax, activeSet, readSet,
                 writeSet, readLine, pgnIdx, pgnList, currentMessage, pc, listen, stdout,
                 sendLog, lastWs, tickLines, lastFeed, nFeed>>

(***************************************************************************)
(* Specifications                                                          *)
(***************************************************************************)
\* the program as main starts it
Next ==
  \/ Tick
  \/ \E c \in Conns, port \in {"json", "nmea"} : Connect(c, port)
  \/ \E c \in Conns, chunk \in ClientChunks : ClientSend(c, chunk)
  \/ \E l \in InputLines : Input(l)
  \/ ReadPhase
  \/ WritePhase

Spec == Init /\ [][Next]_vars

\* doServerWork repeats its two phases for ever, and the wall clock advances
\* (a step that takes pc from "read" to "write" is a ReadPhase step, one that
\* takes it back a WritePhase step)
ReadStep == proc = "running" /\ pc = "read" /\ pc' = "write"
WriteStep == proc = "running" /\ pc = "write" /\ pc' = "read"
SpecFair ==
  /\ Spec
  /\ WF_vars(Tick)
  /\ WF_pc(ReadStep)
  /\ WF_pc(WriteStep)

\* the parser, the store and the serializer, called with lines and at times
\* of the caller's choice
NextStore ==
  \/ Elapse
  \/ \E l \in StoreLines : FeedLine(l)
  \/ Snapshot

SpecStore == Init /\ [][NextStore]_vars

\* the engine serving JSON-port clients that send the promotion marker or
\* nothing, with lines reaching the parser between its phases
NextFeed ==
  \/ \E c \in Conns : Connect(c, "json")
  \/ \E c \in Conns : ClientSend(c, S_marker)
  \/ ReadPhase
  \/ WritePhase
  \/ \E l \in FanLines : FeedLine(l)

SpecFeed == Init /\ [][NextFeed]_vars

\* the engine serving JSON-port clients that write complete lines
NextClient ==
  \/ \E c \in Conns : Connect(c, "json")
  \/ \E c \in Conns, chunk \in ClientLines : ClientSend(c, chunk)
  \/ ReadPhase
  \/ WritePhase

SpecClient == Init /\ [][NextClient]_vars

\* the parser given lines at the edges of what it accepts, and the serializer
NextParse ==
  \/ \E l \in ParseLines : FeedLine(l)
  \/ Snapshot

SpecParse == Init /\ [][NextParse]_vars

(***************************************************************************)
(* Properties of the Message Store and the Snapshot Serializer             *)
(***************************************************************************)
\* the record a line carries, for a line the parser accepts and inserts
Parsed(l) ==
  /\ LineFacts(l).framed
  /\ LineFacts(l).hasSrc /\ LineFacts(l).src # 0
  /\ LineFacts(l).hasPrn /\ LineFacts(l).prn # 0
  /\ LineFacts(l).prn <= MAX_PGN
  /\ PrnToIdx(LineFacts(l).prn) >= 0

\* the last line fed was inserted, and the store is as the insertion left it
Inserted == proc = "running" /\ lastFeed # NoFeed /\ Parsed(lastFeed.line)

\* the PgnEntry of the last line fed
LastEntry == pgnIdx[PrnToIdx(LineFacts(lastFeed.line).prn)]

\* the slots of entry e that carry the pair (src, key)
SlotsOf(e, src, key) ==
  {i \in 1..Len(e.p_message) : e.p_message[i].m_src = src /\ e.p_message[i].m_key2 = key}

\* C1: after the insertion of a record (prn, src, key) the PgnEntry for prn
\* holds exactly one slot with that src and that key, and its text is the
\* line; stated for records whose src fits the slot's 8-bit field.
C1_OneSlotPerRecord ==
  (Inserted /\ LineFacts(lastFeed.line).src < 256) =>
     LET f == LineFacts(lastFeed.line)
         own == SlotsOf(LastEntry, f.src, f.key.key2)
     IN /\ Cardinality(own) = 1
        /\ \A i \in own : LastEntry.p_message[i].m_text = lastFeed.line

\* C2: no PgnEntry holds two slots with the same (src, secondaryKey) pair.
C2_PairUnique ==
  \A idx \in DOMAIN pgnIdx :
    \A i, j \in 1..Len(pgnIdx[idx].p_message) :
      (/\ pgnIdx[idx].p_message[i].m_src = pgnIdx[idx].p_message[j].m_src
       /\ pgnIdx[idx].p_message[i].m_key2 = pgnIdx[idx].p_message[j].m_key2) => i = j

\* the PgnEntry indexes of the accepted lines, each at its first observation
RECURSIVE FirstSeen(_, _)
FirstSeen(lines, seen) ==
  IF lines = <<>> THEN seen
  ELSE LET idx == PrnToIdx(LineFacts(Head(lines)).prn)
       IN FirstSeen(Tail(lines),
            IF \E i \in 1..Len(seen) : seen[i] = idx THEN seen ELSE Append(seen, idx))

\* snapshot s lists the PgnEntries in first-observation order and, of each,
\* exactly the slots with expiresAt >= s.at, in slot order
SnapshotExact(s) ==
  LET order == FirstSeen(tickLines, <<>>)
  IN /\ Len(s.json) = Len(order)
     /\ \A i \in 1..Len(order) :
          LET e == pgnIdx[order[i]]
              kept == SelectSeq(e.p_message, LAMBDA m : m.m_time >= s.at)
          IN /\ s.json[i].prn = e.p_prn
             /\ s.json[i].members = [j \in 1..Len(kept) |-> StateMember(kept[j])]

\* C3: a snapshot serialized at time T contains, for every PgnEntry of the
\* ordered list, exactly the slots with expiresAt >= T and none with
\* expiresAt < T, in slot order within a PGN and in first-observation order
\* across PGNs.
C3_SnapshotCurrent == [][state' # state => SnapshotExact(state')]_vars

\* C3 witness: a snapshot of two PgnEntries, one with its only slot expired and
\* left out, the other with a slot that expires at the very second of the
\* snapshot and is kept.
C3_Witness ==
  /\ state # NoState
  /\ Len(pgnList) = 2 /\ Len(state.json) = 2
  /\ \E i, j \in 1..2 :
       /\ state.json[i].members = <<>>
       /\ Len(pgnIdx[pgnList[i]].p_message) = 1
       /\ pgnIdx[pgnList[i]].p_message[1].m_time < state.at
       /\ Len(state.json[j].members) = 1
       /\ pgnIdx[pgnList[j]].p_message[1].m_time = state.at

\* the secondary-key field a line carries: its place in secondaryKeyList, 0 if none
FieldUsed(l) ==
  LET found == {k \in 1..Len(secondaryKeyList) : StrStr(l, secondaryKeyList[k]) # 0}
  IN IF found = {} THEN 0 ELSE CHOOSE k \in found : \A j \in found : j <= k

\* the expiry class of a record: ais for PGN 126996 and for the fields
\* "Message ID" and "User ID", sonichub for PGN 130816, sensor otherwise
ClassExpiry(l) ==
  IF LineFacts(l).prn = 126996 THEN AIS_TIMEOUT
  ELSE IF LineFacts(l).prn = 130816 THEN SONICHUB_TIMEOUT
  ELSE IF FieldUsed(l) \in {3, 4} THEN AIS_TIMEOUT
  ELSE SENSOR_TIMEOUT

\* C10: the slot an insertion writes expires at now + classExpiry(prn, key
\* field used).
C10_ExpiryByClass ==
  Inserted =>
    \E i \in 1..Len(LastEntry.p_message) :
      /\ LastEntry.p_message[i].m_text = lastFeed.line
      /\ LastEntry.p_message[i].m_time = lastFeed.now + ClassExpiry(lastFeed.line)

(***************************************************************************)
(* Properties of the Fan-out Engine                                        *)
(***************************************************************************)
\* a step of writeAllClients that returns
WriteDone == pc = "write" /\ pc' = "read" /\ proc' = "running"

\* the slots in use before a write phase
LiveSlots == {i \in 0..socketIdxMax : SlotAt(stream, i).fd >= 0}

\* the connections served as JSON-stream clients before a write phase
StreamConns ==
  {c \in Conns : /\ conn[c].st = "open"
                 /\ \E i \in LiveSlots : /\ stream[i].fd = conn[c].fd
                                         /\ stream[i].type = "CLIENT_JSON_STREAM"}

\* C4: a write phase that clears a non-empty accumulator and leaves a
\* JSON-stream client open has sent that client the accumulator, whole and
\* once, after what it had received before.
C4_StreamGetsEveryLine ==
  [][(WriteDone /\ currentMessage # <<>>) =>
       \A c \in StreamConns :
         conn'[c].st = "open" => conn'[c].rx = conn[c].rx \o currentMessage]_vars

\* the lines, each followed by its newline
RECURSIVE Terminated(_)
Terminated(lines) ==
  IF lines = <<>> THEN <<>> ELSE Head(lines) \o <<NL>> \o Terminated(Tail(lines))

\* the sends of the write phase just made that carried the accumulator to
\* connection c in full
FullSends(c) ==
  {k \in 1..Len(sendLog') :
     /\ sendLog'[k].fd = conn[c].fd
     /\ sendLog'[k].what = "bytes"
     /\ sendLog'[k].outcome = "full"}

\* C5: what the accumulator delivers to a JSON-stream client for the lines
\* L1, L2 parsed since it was cleared is L1 "\n" L2 "\n".
C5_LinesVerbatim ==
  [][WriteDone =>
       \A c \in StreamConns :
         FullSends(c) # {} => conn'[c].rx = conn[c].rx \o Terminated(tickLines)]_vars

\* C6: a client is sent at most one snapshot, the write phase that sends it
\* closes the client, and a client promoted to JSON-stream type is sent none.
C6_SnapshotOnce ==
  \A c \in Conns :
    /\ Len(conn[c].states) <= 1
    /\ conn[c].states # <<>> => conn[c].st = "closed"
    /\ conn[c].promoted => conn[c].states = <<>>

\* C6 witness: the last write phase sent one client its snapshot and closed it,
\* and found another, promoted before its deadline passed, writable and left it
\* open without a snapshot.
C6_Witness ==
  \E c, d \in Conns :
    /\ pc = "read"
    /\ Len(conn[c].states) = 1 /\ conn[c].st = "closed"
    /\ \E k \in 1..Len(sendLog) : sendLog[k].what = "state"
    /\ conn[d].promoted /\ conn[d].st = "open"
    /\ conn[d].fd \in lastWs
    /\ conn[d].reg + UPDATE_INTERVAL < conn[c].states[1].at

\* connection c was registered when the last write phase ran, and select() did
\* not report it writable
NotReady(c) == pc = "read" /\ conn[c].st = "open" /\ conn[c].fd \notin lastWs

\* C7 (deadline): no snapshot is sent before registration time + 500 ms.
\* C7 (progress): a JSON-port client that is registered early enough for the
\* clock to pass its deadline is in the end promoted, found not writable, or
\* disconnected (by C6 a client is disconnected when it is sent the snapshot).
C7_SnapshotInTheEnd ==
  /\ [](\A c \in Conns : \A k \in 1..Len(conn[c].states) :
          conn[c].states[k].at >= conn[c].reg + UPDATE_INTERVAL)
  /\ \A c \in Conns :
       (/\ conn[c].st = "open" /\ conn[c].port = "json"
        /\ conn[c].reg + UPDATE_INTERVAL < StartClock + MaxClock)
         ~> (\/ conn[c].promoted
             \/ NotReady(c)
             \/ conn[c].st = "closed")

\* C8: a send of the write phase that returns short or with an error closes
\* that client's slot in the same phase, and a slot the phase changes is one
\* that was not writable, was sent the snapshot, or had such a send.
C8_FailedSendCloses ==
  [][WriteDone =>
       /\ \A k \in 1..Len(sendLog') :
            sendLog'[k].outcome # "full" => stream'[sendLog'[k].slot].fd = NoFd
       /\ \A i \in LiveSlots :
            stream'[i] # stream[i] =>
              \/ stream[i].fd \notin lastWs'
              \/ \E k \in 1..Len(sendLog') :
                   /\ sendLog'[k].slot = i
                   /\ sendLog'[k].what = "state" \/ sendLog'[k].outcome # "full"]_vars

\* C9: a write phase closes every live slot whose descriptor is in writeSet
\* and was not reported writable.
C9_NotReadyClosed ==
  [][WriteDone =>
       \A i \in LiveSlots :
         (stream[i].fd \in writeSet /\ stream[i].fd \notin lastWs') =>
            stream'[i].fd = NoFd]_vars

(***************************************************************************)
(* Properties of the Record Parser                                         *)
(***************************************************************************)
\* a step that hands one line, with its newline, to handleMessageByte
Fed == nFeed' = nFeed + 1

\* line l fits readLine, passes the three framing tests, carries src and pgn
\* as non-zero numbers, and its description, if any, has an end
WellFormed(l) ==
  /\ Len(l) <= READLINE_SIZE
  /\ LineFacts(l).framed
  /\ LineFacts(l).hasSrc /\ LineFacts(l).src # 0
  /\ LineFacts(l).hasPrn /\ LineFacts(l).prn # 0
  /\ ~SetDescription(NewPgn, l, LineFacts(l).prn).ret

InActisenseBand(prn) == prn >= ACTISENSE_BEM /\ prn < ACTISENSE_BEM + ACTISENSE_RNG
InPgnRange(prn) == prn >= MIN_PGN /\ prn <= MAX_PGN

\* entry e is the PgnEntry of prn alone and holds line l
HoldsOnly(e, prn, l) ==
  /\ e.p_prn = prn
  /\ \E i \in 1..Len(e.p_message) : e.p_message[i].m_text = l
  /\ \A i \in 1..Len(e.p_message) : LineFacts(e.p_message[i].m_text).prn = prn

\* C11: a well-framed record with a PGN of [59391, 131000] is stored at index
\* prn - 59391, one with a PGN of the Actisense band [0x400000, 0x400100) at
\* index prn - 0x400000, each in a PgnEntry that holds records of that PGN
\* only; a record with any other PGN leaves the store as it was.
C11_PgnRanges ==
  [][(Fed /\ WellFormed(lastFeed'.line)) =>
       LET l == lastFeed'.line
           prn == LineFacts(l).prn
       IN IF InPgnRange(prn)
          THEN /\ (prn - MIN_PGN) \in DOMAIN pgnIdx'
               /\ HoldsOnly(pgnIdx'[prn - MIN_PGN], prn, l)
          ELSE IF InActisenseBand(prn)
          THEN /\ (prn - ACTISENSE_BEM) \in DOMAIN pgnIdx'
               /\ HoldsOnly(pgnIdx'[prn - ACTISENSE_BEM], prn, l)
          ELSE pgnIdx' = pgnIdx /\ pgnList' = pgnList]_vars

\* C12: no line given to the parser stops the process, and a well-framed line
\* whose PGN is in neither supported range leaves the Message Store unchanged.
C12_OutOfRangeDropped ==
  [][Fed =>
       /\ proc' = "running"
       /\ (/\ WellFormed(lastFeed'.line)
           /\ ~InPgnRange(LineFacts(lastFeed'.line).prn)
           /\ ~InActisenseBand(LineFacts(lastFeed'.line).prn))
            => (pgnIdx' = pgnIdx /\ pgnList' = pgnList)]_vars

\* the PgnEntry index of a line the parser inserts
IdxOf(l) == PrnToIdx(LineFacts(l).prn)

\* store idx holds line l, as the text of a slot of the PgnEntry of its PGN
HeldIn(idx, l) ==
  /\ IdxOf(l) \in DOMAIN idx
  /\ \E i \in 1..Len(idx[IdxOf(l)].p_message) : idx[IdxOf(l)].p_message[i].m_text = l

\* the PgnEntry of line l holds a slot for the record's (src, key), expired at time now
ExpiredSlot(l, now) ==
  /\ IdxOf(l) \in DOMAIN pgnIdx
  /\ \E i \in SlotsOf(pgnIdx[IdxOf(l)], LineFacts(l).src, LineFacts(l).key.key2) :
        pgnIdx[IdxOf(l)].p_message[i].m_time < now

\* C16: inserting a record identical to one the store holds leaves maxSrc, the
\* ordered PGN list and the src, key and text of every slot of its PgnEntry
\* unchanged; inserting a record for a (src, key) whose slot has expired does
\* not grow maxSrc.
C16_OverwriteInPlace ==
  [][(Fed /\ Parsed(lastFeed'.line) /\ proc' = "running") =>
       LET l == lastFeed'.line
           e == pgnIdx[IdxOf(l)]
           e1 == pgnIdx'[IdxOf(l)]
       IN /\ HeldIn(pgnIdx, l) =>
               /\ Len(e1.p_message) = Len(e.p_message)
               /\ pgnList' = pgnList
               /\ \A i \in 1..Len(e.p_message) :
                     /\ e1.p_message[i].m_src = e.p_message[i].m_src
                     /\ e1.p_message[i].m_key2 = e.p_message[i].m_key2
                     /\ e1.p_message[i].m_text = e.p_message[i].m_text
          /\ ExpiredSlot(l, lastFeed'.now) =>
               /\ Len(e1.p_message) = Len(e.p_message)
               /\ pgnList' = pgnList]_vars

\* C19: a line given to the parser is either appended to the accumulator and
\* inserted into the store, or changes neither the accumulator, nor the store,
\* nor the ordered PGN list (for lines that fit readLine and calls that return).
C19_AllOrNothing ==
  [][(Fed /\ proc' = "running" /\ Len(lastFeed'.line) <= READLINE_SIZE) =>
       \/ /\ currentMessage' = currentMessage \o lastFeed'.line
          /\ HeldIn(pgnIdx', lastFeed'.line)
       \/ /\ currentMessage' = currentMessage
          /\ pgnIdx' = pgnIdx
          /\ pgnList' = pgnList]_vars

\* C20: a line of more than 4096 bytes, given to the parser at the start of a
\* line by a call that returns, has the effect of one parse attempt on its
\* first 4096 bytes: the
\* bytes after them, up to the newline, reach neither the accumulator nor
\* the store, and the next line starts after the newline.
C20_LongLineOneAttempt ==
  [][(Fed /\ proc' = "running" /\ readLine = <<>> /\ Len(lastFeed'.line) > READLINE_SIZE) =>
       \E ind \in Indeterminate :
         LET P == ParseLine(St, SubSeq(lastFeed'.line, 1, READLINE_SIZE), lastFeed'.now, ind)
         IN /\ readLine' = <<>>
            /\ currentMessage' = P.currentMessage
            /\ pgnIdx' = P.pgnIdx
            /\ pgnList' = P.pgnList]_vars

(***************************************************************************)
(* Properties of the Stream Registry and the Read Handlers                 *)
(***************************************************************************)
\* the slots of the table bound to descriptor fd
SlotsBoundTo(fd) == {i \in DOMAIN stream : stream[i].fd = fd}

\* the type of slot i is one setFdUsed(fd, type) leaves fd's membership in
\* readSet and writeSet for
TypeAgrees(fd, i) ==
  /\ (fd \in readSet) = (readHandlers(stream[i].type) # "0")
  /\ (fd \in writeSet) = WriteInterest(stream[i].type)

\* C18: every descriptor that was registered and not closed (the members of
\* activeSet) owns exactly one slot of the table, and the slot carries the
\* type the descriptor was last registered with.
C18_RegisteredOwnsSlot ==
  \A fd \in activeSet :
    /\ Cardinality(SlotsBoundTo(fd)) = 1
    /\ \A i \in SlotsBoundTo(fd) : TypeAgrees(fd, i)

\* C17: every call of the client-request read handler returns: the process
\* is never inside a handler whose loop does not end.
C17_HandlerReturns == proc # "hung"

\* a step of checkReadEvents that returns
ReadDone == pc = "read" /\ pc' = "write" /\ proc' = "running"

\* C14: a read phase that finds standard input read-ready reads from it and
\* passes what it read to the parser: a valid line waiting at the head of
\* standard input is in the Message Store when the phase returns.
C14_StdinIsRead ==
  [][(ReadDone /\ stdin # <<>>) =>
       /\ stdin' # stdin
       /\ \A l \in InputLines :
            MatchAt(stdin, 1, l \o <<NL>>) => HeldIn(pgnIdx', l)]_vars

\* C15: the type of a slot that stays bound to its descriptor changes only
\* from snapshot client to JSON-stream client, with the marker line at the
\* head of the slot's read buffer, and the buffer fill is then 0.
C15_PromotionByMarkerOnly ==
  [][\A i \in DOMAIN stream :
       (/\ stream[i].fd >= 0
        /\ stream'[i].fd = stream[i].fd
        /\ stream'[i].type # stream[i].type)
         => /\ stream[i].type = "CLIENT_JSON"
            /\ stream'[i].type = "CLIENT_JSON_STREAM"
            /\ MatchAt(stream'[i].buffer, 1, S_marker)
            /\ stream'[i].len = 0]_vars

\* a step of checkReadEvents in which the read handler takes from connection c
\* a complete line that does not hold the marker
TakesLine(c) ==
  /\ pc = "read" /\ pc' = "write"
  /\ conn[c].st = "open"
  /\ conn[c].inbuf # <<>> /\ conn'[c].inbuf = <<>>
  /\ conn[c].inbuf[Len(conn[c].inbuf)] = NL
  /\ StrStr(conn[c].inbuf, S_marker) = 0

\* the line without its newline
Chomp(bytes) == SubSeq(bytes, 1, Len(bytes) - 1)

\* C13: a complete line a client writes is handled as the mode chosen at
\* startup says.  Started with -r (fd 1 is not in writeSet) the line changes
\* neither standard output nor the accumulator nor the store; started
\* without it, the line is on standard output when the handler is done
\* (output-stream mode) or, being a valid record, in the store (output-copy
\* mode).  After startup the program state is the same for the last two
\* modes, so the formula asks for one of the two.
C13_ModeGovernsClientLines ==
  [][\A c \in Conns : TakesLine(c) =>
       IF stdoutfd \in writeSet
       THEN \/ stdout' = stdout \o conn[c].inbuf
            \/ Parsed(Chomp(conn[c].inbuf)) => HeldIn(pgnIdx', Chomp(conn[c].inbuf))
       ELSE /\ stdout' = stdout
            /\ currentMessage' = currentMessage
            /\ pgnIdx' = pgnIdx]_vars

(***************************************************************************)
(* Properties of the line buffer and of the descriptions                   *)
(***************************************************************************)
\* the process stopped on the write of the line terminator with readLine
\* full, at readLine[sizeof(readLine)]
OverrunFault == proc = "aborted" /\ Len(readLine) = READLINE_SIZE

\* C21: every write of the parser lands inside readLine, at an index of
\* 0..4095: no write past the array ever happens, so no run stops on one,
\* and a line of exactly 4096 bytes is parsed whole.
C21_WritesInsideBuffer ==
  /\ ~OverrunFault
  /\ (proc = "running" /\ lastFeed.line = L_full) => HeldIn(pgnIdx, L_full)

\* C22: every PgnEntry of the ordered list has its description set, in every
\* state of the store, so the serializer never reads through an unset
\* description.
C22_DescriptionSet ==
  \A i \in 1..Len(pgnList) : pgnIdx[pgnList[i]].p_description # NullStr

====
